---- MODULE Spec2Model ----
(***************************************************************************)
(* Model of the Flask authentication application in src/app.py:           *)
(* registration, login, session-backed access gate, logout.               *)
(*                                                                         *)
(* The credential store (MongoDB collection `users`) is a sequence of     *)
(* documents in insertion order.  A handler is split into steps only at   *)
(* its store I/O calls, the places where another request can interleave.  *)
(***************************************************************************)
EXTENDS Integers, Sequences, FiniteSets, TLC

(***************************************************************************)
(* Bounds of the model.                                                    *)
(***************************************************************************)
\* Registrations (POST /register) admitted over a whole behaviour.
MaxUsers == 2

(***************************************************************************)
(* Program constants.                                                      *)
(***************************************************************************)
UsernameMin == 4
UsernameMax == 20
PasswordMin == 8
PasswordMax == 20
\* bcrypt reads at most 72 bytes of the key
BcryptMaxKey == 72

(***************************************************************************)
(* Input values.  A password is a sequence of Unicode code points, an     *)
(* email a sequence of characters, a username a string.                   *)
(***************************************************************************)
\* "Passw0rd"
PwA == <<80, 97, 115, 115, 119, 48, 114, 100>>
\* "Passw0rD"
PwB == <<80, 97, 115, 115, 119, 48, 114, 68>>
\* "pw" : shorter than PasswordMin
PwShort == <<112, 119>>

EmailA == <<"a", "@", "x", ".", "c", "o", "m">>
EmailB == <<"b", "@", "x", ".", "c", "o", "m">>
\* no "@": rejected by Email()
EmailBad == <<"a", "x", ".", "c", "o", "m">>

Sessions == {"s1", "s2"}

NoUser == <<>>
Idle == [pc |-> "idle"]
NoDoc == [_id |-> 0]

\* twenty characters of four UTF-8 bytes each (U+1F600): accepted by
\* Length(min=8, max=20), which counts characters, and 80 bytes long
PwLongA == [i \in 1..20 |-> 128512]
\* the same but for its last character (U+1F601)
PwLongB == [i \in 1..20 |-> IF i = 20 THEN 128513 ELSE 128512]

(***************************************************************************)
(* Password hasher (flask_bcrypt).                                         *)
(***************************************************************************)
\* UTF-8 encoding of one code point
Utf8Char(cp) ==
    IF cp < 128 THEN <<cp>>
    ELSE IF cp < 2048 THEN <<192 + (cp \div 64), 128 + (cp % 64)>>
    ELSE IF cp < 65536
         THEN <<224 + (cp \div 4096), 128 + ((cp \div 64) % 64), 128 + (cp % 64)>>
    ELSE <<240 + (cp \div 262144), 128 + ((cp \div 4096) % 64),
           128 + ((cp \div 64) % 64), 128 + (cp % 64)>>

RECURSIVE Utf8(_)
Utf8(pw) == IF pw = <<>> THEN <<>> ELSE Utf8Char(Head(pw)) \o Utf8(Tail(pw))

\* The key bcrypt digests: the first BcryptMaxKey bytes of the encoded password.
BcryptKey(pw) ==
    LET b == Utf8(pw)
    IN  IF Len(b) <= BcryptMaxKey THEN b ELSE SubSeq(b, 1, BcryptMaxKey)

\* bcrypt.gensalt(): 128 random bits, modelled as a fresh value: the n-th
\* hash generated draws the n-th salt, so no two hashes share a salt
GenSalt(n) == n

\* bcrypt.hashpw: the salt is embedded in the hash string next to the digest.
\* The digest is one-way and collision-free on (salt, key): it is modelled by
\* the pair itself, wrapped so that a hash is never equal to a plaintext.
HashPw(pw, salt) == [salt |-> salt, digest |-> <<salt, BcryptKey(pw)>>]

\* bcrypt.generate_password_hash(password).decode('utf-8') under the salt drawn
GeneratePasswordHash(pw, salt) == HashPw(pw, salt)

\* bcrypt.check_password_hash(pw_hash, password): re-hash under the salt of
\* pw_hash and compare
CheckPasswordHash(pw_hash, pw) == HashPw(pw, pw_hash.salt) = pw_hash

\* User.validate_login
validate_login(password_hash, password) == CheckPasswordHash(password_hash, password)

(***************************************************************************)
(* State.                                                                  *)
(***************************************************************************)
VARIABLES
    store,      \* the users collection: documents in insertion order
    nextId,     \* the next ObjectId the store generates (never reused)
    session,    \* session[s]: the '_user_id' entry of client s's Flask session
    inflight,   \* inflight[s]: the POST /register of client s being validated
    req,        \* the last completed request: its route and submitted form
    resp        \* the response to it

vars == <<store, nextId, session, inflight, req, resp>>

(***************************************************************************)
(* Credential store (pymongo collection `users`).                          *)
(***************************************************************************)
\* users.find_one({key: value}): the first matching document, or None
FindOne(coll, key, value) ==
    LET hits == {i \in 1..Len(coll) : coll[i][key] = value}
    IN  IF hits = {} THEN NoDoc
        ELSE coll[CHOOSE i \in hits : \A j \in hits : i <= j]

\* mutant: an upsert keyed by username, replacing the fields of a document
\* that has the username already
InsertOneUpsert(coll, user_data, id) ==
    LET hits == {i \in 1..Len(coll) : coll[i].username = user_data.username}
        doc(n) == [_id |-> n,
                   first_name |-> user_data.first_name,
                   last_name |-> user_data.last_name,
                   email |-> user_data.email,
                   username |-> user_data.username,
                   password |-> user_data.password]
    IN  IF hits = {} THEN Append(coll, doc(id))
        ELSE [i \in 1..Len(coll) |-> IF i \in hits THEN doc(coll[i]._id) ELSE coll[i]]

\* users.insert_one(user_data): the store assigns the _id
InsertOne(coll, user_data, id) ==
    Append(coll, [_id |-> id,
                  first_name |-> user_data.first_name,
                  last_name |-> user_data.last_name,
                  email |-> user_data.email,
                  username |-> user_data.username,
                  password |-> user_data.password])

\* mutant: the document is inserted twice
saveTwice(coll, user, id) ==
    InsertOne(InsertOne(coll, user, id), user, id)

\* User.save: the document built from the User object, inserted
save(coll, user, id) ==
    InsertOne(coll, [first_name |-> user.first_name, last_name |-> user.last_name,
                     email |-> user.email, username |-> user.username,
                     password |-> user.password], id)

(***************************************************************************)
(* Flask-Login: identity in the session.                                   *)
(***************************************************************************)
\* User.get_id: str(self._id)
get_id(user) == <<"oid", user._id>>

\* ObjectId(user_id): parse the string back
ObjectId(user_id) == user_id[2]

\* load_user: look the session-bound ID up in the store; None if absent
load_user(coll, user_id) == FindOne(coll, "_id", ObjectId(user_id))

\* mutant: the session-bound ID is trusted without reading the store
CurrentUserTrustsSession(coll, sess) ==
    IF sess = NoUser THEN NoDoc ELSE [_id |-> ObjectId(sess)]

\* current_user: resolved on each request from the session through load_user;
\* None (anonymous) when the session holds no ID or the ID has no document
CurrentUser(coll, sess) ==
    IF sess = NoUser THEN NoDoc ELSE load_user(coll, sess)

\* current_user.is_authenticated (User.is_authenticated is True; the
\* anonymous user's is False)
IsAuthenticated(coll, sess) == CurrentUser(coll, sess) # NoDoc

Authenticated(s) == IsAuthenticated(store, session[s])
Anonymous(s) == ~Authenticated(s)

\* mutant: the session is left as it was
login_userForgotten(sess, user) == sess

\* mutant: a session that is bound already keeps its user
login_userKeepsExisting(sess, user) ==
    IF sess # NoUser THEN sess ELSE get_id(user)

\* login_user(user_obj): bind the session to the user's ID
login_user(sess, user) == get_id(user)

\* mutant: the ID stays in the session
logout_userKeepsId(sess) == sess

\* logout_user(): drop the ID from the session
logout_user(sess) == NoUser

(***************************************************************************)
(* Responses.                                                              *)
(***************************************************************************)
NoFlash == ""
MsgInvalidLogin == "Invalid username or password"
MsgPleaseLogIn == "Please log in to access this page."
MsgRequired == "This field is required."
MsgLength == "Field must be between min and max characters long."
MsgEmail == "Invalid email address."
MsgCsrf == "The CSRF token is missing."
MsgUsernameExists == "This username already exists. Please choose a different one."
MsgEmailExists == "This email is already in use. Please choose a different one."

\* render_template(template, form=form)
Render(template, errors, flash) ==
    [status |-> 200, body |-> template, location |-> "", next |-> "",
     flash |-> flash, errors |-> errors]

\* redirect(url_for(view))
Redirect(path) ==
    [status |-> 302, body |-> "", location |-> path, next |-> "",
     flash |-> NoFlash, errors |-> {}]

\* mutant: no login_view configured, the gate aborts with 401
UnauthorizedAbort(path) ==
    [status |-> 401, body |-> "", location |-> "", next |-> "",
     flash |-> NoFlash, errors |-> {}]

\* mutant: login_message disabled, the gate redirects without a flash
UnauthorizedSilent(path) ==
    [status |-> 302, body |-> "", location |-> "/login", next |-> path,
     flash |-> NoFlash, errors |-> {}]

\* login_manager.unauthorized() with login_view = 'login': flash the login
\* message and redirect to the login URL carrying the requested path as next
Unauthorized(path) ==
    [status |-> 302, body |-> "", location |-> "/login", next |-> path,
     flash |-> MsgPleaseLogIn, errors |-> {}]

(***************************************************************************)
(* Form validation (WTForms).                                              *)
(***************************************************************************)
InputRequired(data) == Len(data) > 0

\* mutant: the length bounds are not enforced
LengthUnbounded(data, min, max) == TRUE

Length(data, min, max) == Len(data) >= min /\ Len(data) <= max

\* Email(): one "@" with a local part before it and a dotted domain after it
Email(data) ==
    LET ats == {i \in 1..Len(data) : data[i] = "@"}
    IN  /\ Cardinality(ats) = 1
        /\ LET at == CHOOSE i \in ats : TRUE
           IN  /\ at > 1
               /\ \E d \in (at + 2)..(Len(data) - 1) : data[d] = "."

\* one field's validator chain: InputRequired stops the chain when it fails,
\* every later validator adds its own error
FieldErrors(name, data, checks) ==
    IF ~InputRequired(data) THEN {<<name, MsgRequired>>}
    ELSE {<<name, c[2]>> : c \in {d \in checks : ~d[1]}}

\* RegisterForm.validate_email
validate_email(coll, email) == FindOne(coll, "email", email) = NoDoc

\* mutant: the username is not looked up
validate_usernameSkipped(coll, username) == TRUE

\* RegisterForm.validate_username
validate_username(coll, username) == FindOne(coll, "username", username) = NoDoc

\* RegisterForm: first_name, last_name and email fields (email reads the store)
RegisterErrorsUpToEmail(coll, form) ==
    FieldErrors("first_name", form.first_name, {})
    \cup FieldErrors("last_name", form.last_name, {})
    \cup FieldErrors("email", form.email,
                     {<<Email(form.email), MsgEmail>>,
                      <<validate_email(coll, form.email), MsgEmailExists>>})

\* RegisterForm: username (reads the store), password and csrf_token fields
RegisterErrorsFromUsername(coll, form) ==
    FieldErrors("username", form.username,
                {<<Length(form.username, UsernameMin, UsernameMax), MsgLength>>,
                 <<validate_username(coll, form.username), MsgUsernameExists>>})
    \cup FieldErrors("password", form.password,
                     {<<Length(form.password, PasswordMin, PasswordMax), MsgLength>>})
    \cup (IF form.csrf THEN {} ELSE {<<"csrf_token", MsgCsrf>>})

\* LoginForm.validate
LoginErrors(form) ==
    FieldErrors("username", form.username,
                {<<Length(form.username, UsernameMin, UsernameMax), MsgLength>>})
    \cup FieldErrors("password", form.password,
                     {<<Length(form.password, PasswordMin, PasswordMax), MsgLength>>})
    \cup (IF form.csrf THEN {} ELSE {<<"csrf_token", MsgCsrf>>})

(***************************************************************************)
(* Requests the clients send.                                              *)
(***************************************************************************)
\* two submissions that do not conflict, and a third sharing its username
\* with the first and its email and password with the second
RegisterBase ==
    [first_name |-> "Ann", last_name |-> "Lee", email |-> EmailA,
     username |-> "alice2024", password |-> PwA, csrf |-> TRUE]

RegisterValid ==
    {RegisterBase,
     [RegisterBase EXCEPT !.email = EmailB, !.username = "bob01", !.password = PwB],
     [RegisterBase EXCEPT !.email = EmailB, !.password = PwB]}

\* submissions the validators reject: a username below UsernameMin, a
\* password below PasswordMin, and one with no first name, a malformed email
\* and no CSRF token
RegisterInvalid ==
    {[RegisterBase EXCEPT !.username = "bob"],
     [RegisterBase EXCEPT !.password = PwShort],
     [RegisterBase EXCEPT !.first_name = "", !.email = EmailBad, !.csrf = FALSE]}

RegisterInputs == RegisterValid \cup RegisterInvalid

LoginInputs ==
    {[username |-> "alice2024", password |-> PwA, csrf |-> TRUE],
     [username |-> "alice2024", password |-> PwB, csrf |-> TRUE],
     [username |-> "bob01", password |-> PwB, csrf |-> TRUE],
     [username |-> "bob", password |-> PwShort, csrf |-> TRUE],
     [username |-> "", password |-> PwA, csrf |-> FALSE]}

(***************************************************************************)
(* Initial state: an empty collection, no session bound, nothing in       *)
(* flight, no response yet.                                                *)
(***************************************************************************)
NoForm == [csrf |-> FALSE]
Request(route, form) == [route |-> route, form |-> form]

Init ==
    /\ store = <<>>
    /\ nextId = 1
    /\ session = [s \in Sessions |-> NoUser]
    /\ inflight = [s \in Sessions |-> Idle]
    /\ req = Request("", NoForm)
    /\ resp = Render("", {}, NoFlash)

(***************************************************************************)
(* Routes.                                                                 *)
(***************************************************************************)
\* GET / : home
Home(s) ==
    /\ req' = Request("home", NoForm)
    /\ resp' = Render("home.html", {}, NoFlash)
    /\ UNCHANGED <<store, nextId, session, inflight>>

\* mutant: the view is not decorated
LoginRequiredOmitted(coll, sess) == TRUE

\* @login_required: the view runs only for an authenticated current_user
LoginRequired(coll, sess) == IsAuthenticated(coll, sess)

\* mutant: the password is not verified
LoginAcceptsAnyPassword(user_data, password) == user_data # NoDoc

\* the condition of login() once the form validated: the user was found by
\* username and the password verifies against the stored hash
LoginAccepts(user_data, password) ==
    /\ user_data # NoDoc
    /\ CheckPasswordHash(user_data.password, password)

\* mutant: the message tells which of the two checks failed
LoginFailedLeaky(user_data) ==
    Render("login.html", {},
           IF user_data = NoDoc THEN "Unknown username" ELSE "Wrong password")

\* mutant: a failed credential check is raised as an unhandled exception
LoginFailedServerError(user_data) ==
    [status |-> 500, body |-> "", location |-> "", next |-> "",
     flash |-> NoFlash, errors |-> {}]

\* the else branch of login(): one flash for an unknown username and for a
\* password mismatch alike, then the form again
LoginFailed(user_data) == Render("login.html", {}, MsgInvalidLogin)

\* GET /login: render the form
LoginGet(s) ==
    /\ req' = Request("login", NoForm)
    /\ resp' = Render("login.html", {}, NoFlash)
    /\ UNCHANGED <<store, nextId, session, inflight>>

\* mutant: a failed credential check logs the client out
LoginPostLogsOutOnFailure(s, form) ==
    LET errors == LoginErrors(form)
        user_data == FindOne(store, "username", form.username)
    IN  /\ req' = Request("login", form)
        /\ IF errors # {}
           THEN /\ resp' = Render("login.html", errors, NoFlash)
                /\ UNCHANGED <<store, nextId, session, inflight>>
           ELSE IF LoginAccepts(user_data, form.password)
           THEN /\ session' = [session EXCEPT ![s] = login_user(session[s], user_data)]
                /\ resp' = Redirect("/dashboard")
                /\ UNCHANGED <<store, nextId, inflight>>
           ELSE /\ resp' = LoginFailed(user_data)
                /\ session' = [session EXCEPT ![s] = logout_user(session[s])]
                /\ UNCHANGED <<store, nextId, inflight>>

\* POST /login
LoginPost(s, form) ==
    LET errors == LoginErrors(form)
        user_data == FindOne(store, "username", form.username)
    IN  /\ req' = Request("login", form)
        /\ IF errors # {}
           THEN /\ resp' = Render("login.html", errors, NoFlash)
                /\ UNCHANGED <<store, nextId, session, inflight>>
           ELSE IF LoginAccepts(user_data, form.password)
           THEN /\ session' = [session EXCEPT ![s] = login_user(session[s], user_data)]
                /\ resp' = Redirect("/dashboard")
                /\ UNCHANGED <<store, nextId, inflight>>
           ELSE /\ resp' = LoginFailed(user_data)
                /\ UNCHANGED <<store, nextId, session, inflight>>

\* GET|POST /dashboard
Dashboard(s) ==
    /\ req' = Request("dashboard", NoForm)
    /\ resp' = IF LoginRequired(store, session[s])
               THEN Render("dashboard.html", {}, NoFlash)
               ELSE Unauthorized("/dashboard")
    /\ UNCHANGED <<store, nextId, session, inflight>>

\* mutant: the logged-in user is kept in one server-side variable shared by
\* all clients, so a logout ends every session
LogoutEverySession(s) ==
    /\ req' = Request("logout", NoForm)
    /\ IF LoginRequired(store, session[s])
       THEN /\ session' = [t \in Sessions |-> logout_user(session[t])]
            /\ resp' = Redirect("/login")
            /\ UNCHANGED <<store, nextId, inflight>>
       ELSE /\ resp' = Unauthorized("/logout")
            /\ UNCHANGED <<store, nextId, session, inflight>>

\* GET|POST /logout
Logout(s) ==
    /\ req' = Request("logout", NoForm)
    /\ IF LoginRequired(store, session[s])
       THEN /\ session' = [session EXCEPT ![s] = logout_user(session[s])]
            /\ resp' = Redirect("/login")
            /\ UNCHANGED <<store, nextId, inflight>>
       ELSE /\ resp' = Unauthorized("/logout")
            /\ UNCHANGED <<store, nextId, session, inflight>>

\* GET /register: render the form
RegisterGet(s) ==
    /\ req' = Request("register", NoForm)
    /\ resp' = Render("register.html", {}, NoFlash)
    /\ UNCHANGED <<store, nextId, session, inflight>>

\* registrations admitted so far: inserted or still being validated
Admitted == (nextId - 1) + Cardinality({s \in Sessions : inflight[s] # Idle})

\* POST /register, up to and including validate_email's read of the store
RegisterSubmit(s, form) ==
    /\ inflight[s] = Idle
    /\ Admitted < MaxUsers
    /\ inflight' = [inflight EXCEPT ![s] =
                        [pc |-> "username", form |-> form,
                         errors |-> RegisterErrorsUpToEmail(store, form)]]
    /\ UNCHANGED <<store, nextId, session, req, resp>>

\* POST /register, continued: validate_username's read of the store and the
\* remaining fields
RegisterValidateUsername(s) ==
    /\ inflight[s].pc = "username"
    /\ inflight' = [inflight EXCEPT ![s] =
                        [pc |-> "respond", form |-> inflight[s].form,
                         errors |-> inflight[s].errors
                                    \cup RegisterErrorsFromUsername(store, inflight[s].form)]]
    /\ UNCHANGED <<store, nextId, session, req, resp>>

\* the User object register() builds from a validated form
NewUser(form, salt) ==
    [first_name |-> form.first_name, last_name |-> form.last_name,
     email |-> form.email, username |-> form.username,
     password |-> GeneratePasswordHash(form.password, salt)]

\* mutant: the new user is logged in by registering
RegisterRespondAutoLogin(s) ==
    /\ inflight[s].pc = "respond"
    /\ inflight' = [inflight EXCEPT ![s] = Idle]
    /\ req' = Request("register", inflight[s].form)
    /\ IF inflight[s].errors = {}
       THEN /\ store' = save(store, NewUser(inflight[s].form, GenSalt(nextId)), nextId)
            /\ nextId' = nextId + 1
            /\ resp' = Redirect("/login")
            /\ session' = [session EXCEPT ![s] = <<"oid", nextId>>]
       ELSE /\ resp' = Render("register.html", inflight[s].errors, NoFlash)
            /\ UNCHANGED <<store, nextId, session>>

\* POST /register, end: insert and redirect when the form validated,
\* re-render the form with its errors otherwise
RegisterRespond(s) ==
    /\ inflight[s].pc = "respond"
    /\ inflight' = [inflight EXCEPT ![s] = Idle]
    /\ req' = Request("register", inflight[s].form)
    /\ IF inflight[s].errors = {}
       THEN /\ store' = save(store, NewUser(inflight[s].form, GenSalt(nextId)), nextId)
            /\ nextId' = nextId + 1
            /\ resp' = Redirect("/login")
       ELSE /\ resp' = Render("register.html", inflight[s].errors, NoFlash)
            /\ UNCHANGED <<store, nextId>>
    /\ UNCHANGED session

Next ==
    \E s \in Sessions :
        \/ Home(s)
        \/ LoginGet(s)
        \/ \E form \in LoginInputs : LoginPost(s, form)
        \/ Dashboard(s)
        \/ Logout(s)
        \/ RegisterGet(s)
        \/ \E form \in RegisterInputs : RegisterSubmit(s, form)
        \/ RegisterValidateUsername(s)
        \/ RegisterRespond(s)

Spec == Init /\ [][Next]_vars

(***************************************************************************)
(* The collection lives in an external MongoDB deployment: a document can  *)
(* be removed there by someone other than this application.  SpecExt adds  *)
(* that step; the application itself never deletes.                        *)
(***************************************************************************)
StoreDelete(i) ==
    /\ i \in 1..Len(store)
    /\ store' = SubSeq(store, 1, i - 1) \o SubSeq(store, i + 1, Len(store))
    /\ UNCHANGED <<nextId, session, inflight, req, resp>>

NextExt ==
    \/ Next
    \/ \E i \in 1..MaxUsers : StoreDelete(i)

SpecExt == Init /\ [][NextExt]_vars

(***************************************************************************)
(* The hasher exercised through the application: one client registers and  *)
(* logs in with passwords over the whole range the forms accept.           *)
(***************************************************************************)
HashPasswords == {PwA, PwB, PwLongA, PwLongB, PwShort}

HashRegisterInputs ==
    {[RegisterBase EXCEPT !.password = pw] : pw \in HashPasswords}
    \cup {[RegisterBase EXCEPT !.email = EmailB, !.username = "bob01",
                               !.password = pw] : pw \in HashPasswords}

HashLoginInputs ==
    {[username |-> u, password |-> pw, csrf |-> TRUE] :
        u \in {"alice2024", "bob01"}, pw \in HashPasswords}

HashClient == "s1"

NextHash ==
    \/ \E form \in HashRegisterInputs : RegisterSubmit(HashClient, form)
    \/ RegisterValidateUsername(HashClient)
    \/ RegisterRespond(HashClient)
    \/ \E form \in HashLoginInputs : LoginPost(HashClient, form)

SpecHash == Init /\ [][NextHash]_vars

(***************************************************************************)
(* Properties.                                                             *)
(***************************************************************************)
\* the stored hash of document u is the bcrypt hash of password pw
Verifies(u, pw) == HashPw(pw, u.password.salt) = u.password

\* a document with this _id is in the collection
HasId(coll, id) == \E i \in 1..Len(coll) : coll[i]._id = id

\* C1: in every reachable state no two persisted user records share a
\* username and no two share an email, under any interleaving of
\* registration requests.
UniqueUsernamesAndEmails ==
    \A i, j \in 1..Len(store) :
        i # j => /\ store[i].username # store[j].username
                 /\ store[i].email # store[j].email

\* C2: a request to /dashboard or /logout by a session that is Anonymous is
\* answered by the redirect to /login; the dashboard is not rendered and
\* logout_user does not run (the session is left as it was and the response
\* is the gate's, not the logout view's).
FailClosedGating ==
    [][\A s \in Sessions :
         (Anonymous(s) /\ (Dashboard(s) \/ Logout(s)))
            => /\ resp'.status = 302
               /\ resp'.location = "/login"
               /\ resp'.body # "dashboard.html"
               /\ resp' # Redirect("/login")
               /\ session' = session]_vars

\* C2 witness: the gate has turned a dashboard request away while users exist
GateRedirectedDashboard ==
    /\ req.route = "dashboard"
    /\ resp = Unauthorized("/dashboard")
    /\ Len(store) > 0
    /\ \E s \in Sessions : Anonymous(s)

\* C3: a session goes from Anonymous to Authenticated only by a login
\* request whose form validated, whose username is found in the store and
\* whose password verifies against that document's stored hash.
AnonymousToAuthenticatedOnlyByLogin ==
    [][\A s \in Sessions :
         (Anonymous(s) /\ Authenticated(s)')
            => /\ req'.route = "login"
               /\ LoginPost(s, req'.form)
               /\ LoginErrors(req'.form) = {}
               /\ \E i \in 1..Len(store) :
                     /\ store[i].username = req'.form.username
                     /\ Verifies(store[i], req'.form.password)]_vars

\* C3 witness: a login has just made a session Authenticated
LoginAuthenticatedSession ==
    /\ req.route = "login"
    /\ resp = Redirect("/dashboard")
    /\ \E s \in Sessions : Authenticated(s)

\* C4: a login whose form validates, whose username is found and whose
\* password verifies against the found document's hash binds the session to
\* that document's ID and redirects to the dashboard; any other login leaves
\* the session as it was and does not redirect, so a session is never bound
\* to a document whose hash did not verify the submitted password.
LoginBindsVerifiedUser ==
    [][\A s \in Sessions : \A form \in LoginInputs :
         LoginPost(s, form)
            => LET u == FindOne(store, "username", form.username)
               IN  IF /\ LoginErrors(form) = {}
                      /\ u # NoDoc
                      /\ Verifies(u, form.password)
                   THEN /\ session'[s] = <<"oid", u._id>>
                        /\ resp' = Redirect("/dashboard")
                   ELSE /\ session'[s] = session[s]
                        /\ resp'.status # 302]_vars

\* C4 witness: with two users stored, a login has bound a session to the
\* document named by the submitted username, whose hash verifies the password
LoginBoundToVerifiedUser ==
    /\ Len(store) = 2
    /\ req.route = "login"
    /\ resp = Redirect("/dashboard")
    /\ \E s \in Sessions : \E i \in 1..Len(store) :
          /\ session[s] = <<"oid", store[i]._id>>
          /\ store[i].username = req.form.username
          /\ Verifies(store[i], req.form.password)

\* C5: a login with a username that is not in the store and a login with a
\* stored username and a password that does not verify get the same
\* response: status 200, the login form, the one generic flash message; and
\* neither changes the session or the store.
GenericAuthFailure ==
    [][\A s \in Sessions : \A form \in LoginInputs :
         LET u == FindOne(store, "username", form.username)
         IN  (/\ LoginPost(s, form)
              /\ LoginErrors(form) = {}
              /\ \/ ~\E i \in 1..Len(store) : store[i].username = form.username
                 \/ (u # NoDoc /\ ~Verifies(u, form.password)))
                => /\ resp' = Render("login.html", {}, MsgInvalidLogin)
                   /\ session' = session
                   /\ store' = store]_vars

\* C5 witness: a login with a stored username and a wrong password was
\* answered with the generic message while another username is still unknown
WrongPasswordGotGenericMessage ==
    /\ req.route = "login"
    /\ resp = Render("login.html", {}, MsgInvalidLogin)
    /\ \E i \in 1..Len(store) :
          /\ store[i].username = req.form.username
          /\ ~Verifies(store[i], req.form.password)
    /\ \E form \in LoginInputs :
          /\ LoginErrors(form) = {}
          /\ \A i \in 1..Len(store) : store[i].username # form.username

SessionResolutionFailsClosed ==
    [][\A s \in Sessions :
         /\ Authenticated(s) <=> (/\ session[s] # NoUser
                                  /\ HasId(store, session[s][2]))
         /\ (session[s] # NoUser /\ ~HasId(store, session[s][2]))
               => /\ Dashboard(s) => resp' = Unauthorized("/dashboard")
                  /\ Logout(s) => /\ resp' = Unauthorized("/logout")
                                  /\ session' = session]_vars

\* C7 witness: a dashboard request of a session bound to a vanished ID was
\* redirected
StaleSessionRedirected ==
    /\ req.route = "dashboard"
    /\ resp = Unauthorized("/dashboard")
    /\ \E s \in Sessions : session[s] # NoUser /\ ~HasId(store, session[s][2])

\* C8: the end of a registration request appends exactly one document when
\* the form validated (and redirects), and leaves the store as it was when
\* it did not (and re-renders); no other step changes the store.
OneInsertPerSuccessfulRegistration ==
    [][/\ \A s \in Sessions :
            RegisterRespond(s)
               => IF inflight[s].errors = {}
                  THEN /\ Len(store') = Len(store) + 1
                       /\ SubSeq(store', 1, Len(store)) = store
                       /\ resp' = Redirect("/login")
                  ELSE /\ store' = store
                       /\ resp'.status = 200
       /\ store' # store
             => \E s \in Sessions : RegisterRespond(s) /\ inflight[s].errors = {}]_vars

\* C8 witness: two registrations succeeded and the store holds two documents
TwoRegistrationsTwoDocuments ==
    /\ Len(store) = 2
    /\ req.route = "register"
    /\ resp = Redirect("/login")

\* C9: a registration whose email (username) is in the store when
\* validate_email (validate_username) reads it gets the field's error, keeps
\* it to the end of the request, and ends with the registration form
\* re-rendered with that error and the store unchanged.
DuplicateRegistrationRejected ==
    [][\A s \in Sessions :
         /\ \A form \in RegisterInputs :
               (/\ RegisterSubmit(s, form)
                /\ \E i \in 1..Len(store) : store[i].email = form.email)
                  => <<"email", MsgEmailExists>> \in inflight'[s].errors
         /\ RegisterValidateUsername(s)
               => /\ inflight[s].errors \subseteq inflight'[s].errors
                  /\ (\E i \in 1..Len(store) :
                         store[i].username = inflight[s].form.username)
                        => <<"username", MsgUsernameExists>> \in inflight'[s].errors
         /\ (/\ RegisterRespond(s)
             /\ \/ <<"email", MsgEmailExists>> \in inflight[s].errors
                \/ <<"username", MsgUsernameExists>> \in inflight[s].errors)
               => /\ resp' = Render("register.html", inflight[s].errors, NoFlash)
                  /\ store' = store]_vars

\* C9 witness: a second registration under a stored username was rejected
\* with the username's error and no second document
DuplicateUsernameRejected ==
    /\ req.route = "register"
    /\ resp.body = "register.html"
    /\ <<"username", MsgUsernameExists>> \in resp.errors
    /\ Len(store) = 1
    /\ store[1].username = req.form.username

\* C10: every logout request, with or without a session, is answered by a
\* redirect to /login and leaves the session Anonymous; one made with no
\* session leaves the session as it was.
IdempotentLogout ==
    [][\A s \in Sessions :
         Logout(s)
            => /\ resp'.status = 302
               /\ resp'.location = "/login"
               /\ Anonymous(s)'
               /\ session[s] = NoUser => session' = session]_vars

\* C10 witness: a logout request arrived with no session bound anywhere, as
\* the second of two logouts does, and was redirected
LogoutWithoutSessionRedirected ==
    /\ req.route = "logout"
    /\ resp = Unauthorized("/logout")
    /\ Len(store) > 0
    /\ \A s \in Sessions : session[s] = NoUser

\* C11: a registration that succeeds answers with the redirect to /login and
\* leaves every session as it was: the registering client is not logged in,
\* so a session that was Anonymous before is Anonymous after.
RegistrationDoesNotLogIn ==
    [][\A s \in Sessions :
         (RegisterRespond(s) /\ inflight[s].errors = {})
            => /\ resp' = Redirect("/login")
               /\ session' = session
               /\ \A t \in Sessions : Anonymous(t) => Anonymous(t)']_vars

\* C11 witness: a registration succeeded and no session is bound
RegisteredStillAnonymous ==
    /\ req.route = "register"
    /\ resp = Redirect("/login")
    /\ Len(store) = 1
    /\ \A s \in Sessions : session[s] = NoUser /\ Anonymous(s)

\* C12: every user whose registration succeeded can log in afterwards with
\* the username and password of that registration, whatever requests came in
\* between: for every stored record and the submission it was created from,
\* the login form with that username and password validates, login() accepts
\* it, binds the session to a user of that username and the dashboard then
\* renders for that session.
RegisteredUserCanLogIn ==
    \A i \in 1..Len(store) : \A f \in RegisterValid :
        (/\ store[i].username = f.username
         /\ store[i].email = f.email
         /\ Verifies(store[i], f.password))
           => LET form == [username |-> f.username, password |-> f.password,
                           csrf |-> TRUE]
                  user_data == FindOne(store, "username", form.username)
              IN  /\ LoginErrors(form) = {}
                  /\ LoginAccepts(user_data, form.password)
                  /\ LoginRequired(store, login_user(NoUser, user_data))

\* C13: hash round trip. For every password a registration accepted, the
\* hash it stored verifies that same plaintext, and verifies no other
\* plaintext the forms accept.
HashRoundTrip ==
    [][(RegisterRespond(HashClient) /\ inflight[HashClient].errors = {})
          => LET pw_hash == store'[Len(store')].password
                 password == inflight[HashClient].form.password
             IN  /\ CheckPasswordHash(pw_hash, password)
                 /\ \A other \in HashPasswords :
                        (other # password /\ Length(other, PasswordMin, PasswordMax))
                           => ~CheckPasswordHash(pw_hash, other)]_vars

\* C14 as stated: an Anonymous request to a protected route is redirected to
\* the login entry point and the redirect leaves no flash message and no
\* other error state in the session for a later response to show.
AnonymousRedirectLeavesNoFlash ==
    [][\A s \in Sessions :
         (Anonymous(s) /\ (Dashboard(s) \/ Logout(s)))
            => /\ resp'.status = 302
               /\ resp'.location = "/login"
               /\ resp'.flash = NoFlash
               /\ resp'.errors = {}
               /\ session' = session]_vars

\* C14, amended: an Anonymous request to a protected route is redirected to
\* the login entry point, and the only thing the redirect leaves behind is
\* the login manager's notice "Please log in to access this page.", flashed
\* for the next response; it is not the authentication-failure message, no
\* field error is reported, and the session's binding and the store are
\* unchanged.
AnonymousRedirectFlashesLoginNotice ==
    [][\A s \in Sessions :
         (Anonymous(s) /\ (Dashboard(s) \/ Logout(s)))
            => /\ resp'.status = 302
               /\ resp'.location = "/login"
               /\ resp'.flash = MsgPleaseLogIn
               /\ resp'.flash # MsgInvalidLogin
               /\ resp'.errors = {}
               /\ session' = session
               /\ store' = store]_vars

\* C14 witness: nobody is logged in, a user exists, and a request to /logout
\* was redirected with the notice flashed
AnonymousLogoutFlashedNotice ==
    /\ Len(store) = 1
    /\ \A s \in Sessions : Anonymous(s)
    /\ req.route = "logout"
    /\ resp.location = "/login"
    /\ resp.next = "/logout"
    /\ resp.flash = MsgPleaseLogIn

\* C15: user records are created once and never updated or deleted by the
\* application: every step keeps each stored record with its _id and all its
\* fields, the set of records only grows, it grows only by a registration,
\* and no _id is given to two records.
RecordsAreImmutable ==
    [][/\ Len(store') >= Len(store)
       /\ \A i \in 1..Len(store) : store'[i] = store[i]
       /\ store' # store => (\E s \in Sessions : RegisterRespond(s))
       /\ \A i, j \in 1..Len(store') :
              store'[i]._id = store'[j]._id => i = j]_vars

\* C15 witness: two records were created and a client has since logged in
\* and out again, the first record still as it was registered
RecordsKeptAcrossLoginLogout ==
    /\ Len(store) = 2
    /\ store[1]._id = 1 /\ store[2]._id = 2
    /\ store[1].username = "alice2024" /\ Verifies(store[1], PwA)
    /\ req.route = "logout"
    /\ resp = Redirect("/login")

\* C16: validation and authentication failures in login and registration
\* never produce a server error: a login whose form does not validate, whose
\* username is unknown or whose password does not verify is answered 200
\* with the login form and a message (field errors or the flash), and a
\* registration whose form does not validate is answered 200 with the
\* registration form and its field errors.
FailuresRerenderForm ==
    [][\A s \in Sessions :
         /\ (/\ \E form \in LoginInputs : LoginPost(s, form)
             /\ \/ LoginErrors(req'.form) # {}
                \/ ~LoginAccepts(FindOne(store, "username", req'.form.username),
                                 req'.form.password))
               => /\ resp'.status = 200
                  /\ resp'.body = "login.html"
                  /\ resp'.errors # {} \/ resp'.flash # NoFlash
         /\ (RegisterRespond(s) /\ inflight[s].errors # {})
               => /\ resp'.status = 200
                  /\ resp'.body = "register.html"
                  /\ resp'.errors = inflight[s].errors]_vars

\* C16 witness: a login with an unknown username was answered with the login
\* form and the flash, while another client's rejected registration is about
\* to be answered
UnknownUserLoginRerendered ==
    /\ req.route = "login"
    /\ req.form # NoForm
    /\ LoginErrors(req.form) = {}
    /\ FindOne(store, "username", req.form.username) = NoDoc
    /\ resp = Render("login.html", {}, MsgInvalidLogin)
    /\ \E s \in Sessions : inflight[s].pc = "respond" /\ inflight[s].errors # {}

\* C17: sessions are independent: a login (successful or failed) or a logout
\* by one session never changes the user another session is bound to nor
\* whether that other session is Authenticated, also when both sessions are
\* bound to the same user.
SessionsAreIndependent ==
    [][\A s \in Sessions : \A t \in Sessions \ {s} :
         ((\E form \in LoginInputs : LoginPost(s, form)) \/ Logout(s))
            => /\ session'[t] = session[t]
               /\ Authenticated(t)' <=> Authenticated(t)
               /\ CurrentUser(store, session[t])' = CurrentUser(store, session[t])]_vars

\* C17 witness: two sessions were bound to the only user, one has logged out
\* and the other is still Authenticated as that user
OtherSessionOfSameUserSurvivesLogout ==
    /\ Len(store) = 1
    /\ req.route = "logout"
    /\ resp = Redirect("/login")
    /\ \E s \in Sessions : \E t \in Sessions \ {s} :
          /\ session[s] = NoUser
          /\ Authenticated(t)
          /\ session[t] = get_id(store[1])

\* C18: every persisted record stores the hash of the password that was
\* submitted (a salt and a digest, never the plaintext itself), and was created from a submission
\* whose username has 4 to 20 characters and whose password has 8 to 20; a
\* registration whose username or password is outside those lengths persists
\* nothing.
RecordsHoldHashOfBoundedInputs ==
    [][/\ \A i \in 1..Len(store') :
            \E f \in RegisterInputs :
               /\ store'[i].username = f.username
               /\ store'[i].email = f.email
               /\ Len(f.username) >= UsernameMin /\ Len(f.username) <= UsernameMax
               /\ Len(f.password) >= PasswordMin /\ Len(f.password) <= PasswordMax
               /\ store'[i].password = HashPw(f.password, store'[i].password.salt)
               /\ DOMAIN store'[i].password = {"salt", "digest"}
       /\ \A s \in Sessions :
            (/\ RegisterRespond(s)
             /\ \/ Len(inflight[s].form.username) < UsernameMin
                \/ Len(inflight[s].form.username) > UsernameMax
                \/ Len(inflight[s].form.password) < PasswordMin
                \/ Len(inflight[s].form.password) > PasswordMax)
               => /\ store' = store
                  /\ resp'.body = "register.html"]_vars

\* C18 witness: a record exists and a registration with a two-character
\* password has just been rejected
ShortPasswordRegistrationRejected ==
    /\ Len(store) = 1
    /\ req.route = "register"
    /\ req.form # NoForm
    /\ Len(req.form.password) < PasswordMin
    /\ resp.body = "register.html"
    /\ <<"password", MsgLength>> \in resp.errors

\* C19: a failed login, whether the form did not validate, the username is
\* unknown or the password does not match, changes neither the store nor the
\* authentication state of the requesting session: a session Authenticated as
\* some user before the attempt is Authenticated as that user after it.
FailedLoginChangesNothing ==
    [][\A s \in Sessions :
         (/\ \E form \in LoginInputs : LoginPost(s, form)
          /\ \/ LoginErrors(req'.form) # {}
             \/ FindOne(store, "username", req'.form.username) = NoDoc
             \/ ~Verifies(FindOne(store, "username", req'.form.username),
                          req'.form.password))
            => /\ store' = store
               /\ nextId' = nextId
               /\ session'[s] = session[s]
               /\ CurrentUser(store, session[s])' = CurrentUser(store, session[s])
               /\ resp'.status = 200]_vars

\* C19 witness: both sessions are logged in and a login with a wrong password
\* has just failed
FailedLoginWhileAuthenticated ==
    /\ \A s \in Sessions : Authenticated(s)
    /\ req.route = "login"
    /\ req.form # NoForm
    /\ FindOne(store, "username", req.form.username) # NoDoc
    /\ ~Verifies(FindOne(store, "username", req.form.username), req.form.password)
    /\ resp = Render("login.html", {}, MsgInvalidLogin)

\* C20: a session is bound to at most one user ID: its binding is empty or
\* the ID of one created record. The binding changes only by a successful
\* login of that session, to the ID of the user who logged in, or by a logout
\* of that session, to empty: so while Authenticated the ID is the one of the
\* session's most recent successful login since its last logout. A successful
\* login as B from a session bound to A rebinds it to B without a logout.
SessionBoundToLatestLogin ==
    [][\A s \in Sessions :
         /\ session'[s] = NoUser \/ \E i \in 1..(nextId' - 1) : session'[s] = <<"oid", i>>
         /\ (/\ \E form \in LoginInputs : LoginPost(s, form)
             /\ resp' = Redirect("/dashboard"))
               => /\ session'[s] = get_id(FindOne(store, "username", req'.form.username))
                  /\ Authenticated(s)'
         /\ session'[s] # session[s]
               => \/ /\ \E form \in LoginInputs : LoginPost(s, form)
                     /\ resp' = Redirect("/dashboard")
                  \/ /\ Logout(s)
                     /\ session'[s] = NoUser]_vars

\* C20 witness: two users exist, a login as the second has just succeeded and
\* both sessions are bound, one to each user
SessionsBoundToDifferentUsers ==
    /\ Len(store) = 2
    /\ req.route = "login"
    /\ req.form # NoForm
    /\ req.form.username = store[2].username
    /\ resp = Redirect("/dashboard")
    /\ \E s \in Sessions : \E t \in Sessions \ {s} :
          /\ session[s] = get_id(store[1])
          /\ session[t] = get_id(store[2])
          /\ Authenticated(s) /\ Authenticated(t)

====
